---- MODULE Spec2Model ----
(***************************************************************************)
(* A model of the Clean cog (bot/exts/moderation/clean.py): the bulk       *)
(* message cleaner, its single `cleaning` flag, and the gateway calls a    *)
(* run suspends on.  One action is one stretch of a coroutine between two  *)
(* awaits: everything a handler does synchronously happens in one step.    *)
(***************************************************************************)
EXTENDS Integers, Sequences, FiniteSets, TLC

\* --------------------------------------------------------------- bounds
\* Number of _clean_messages invocations that may be in flight together.
MaxRuns == 2
\* Number of messages on the platform.
NumMsgs == 4
\* CleanMessages.message_limit, the configured ceiling on `traverse`.
message_limit == 2
\* Largest value of the two-weeks-old snowflake while the model runs.
MaxCutoff == 2

\* ------------------------------------------------------- small helpers
Min(a, b) == IF a <= b THEN a ELSE b
Max(a, b) == IF a >= b THEN a ELSE b

Range(s) == {s[i] : i \in 1..Len(s)}

\* The first n entries of s (itertools.islice(s, n), a history limit).
Take(s, n) == SubSeq(s, 1, Min(n, Len(s)))

\* The entries of s from position i on (messages[current_index:]).
Drop(s, i) == SubSeq(s, i, Len(s))

RECURSIVE Filter(_, _)
\* The subsequence of the message indices s whose members are in the set keep.
Filter(s, keep) ==
    IF s = <<>> THEN <<>>
    ELSE (IF Head(s) \in keep THEN <<Head(s)>> ELSE <<>>) \o Filter(Tail(s), keep)

RECURSIVE Concat(_)
\* The concatenation of a sequence of sequences.
Concat(ss) == IF ss = <<>> THEN <<>> ELSE Head(ss) \o Concat(Tail(ss))

\* ------------------------------------------------------------ the guild
RunIds == 1..MaxRuns
MsgIds == 1..NumMsgs
Channels == <<"c1", "c2">>
Users == {"u1", "u2", "bot"}

NoLimit == [kind |-> "none", v |-> 0]
DateLimit(t) == [kind |-> "datetime", v |-> t]
MsgLimit(m) == [kind |-> "message", v |-> m]

NoChannels == [kind |-> "none", list |-> <<>>]
AllChannels == [kind |-> "all", list |-> <<>>]
ChannelList(l) == [kind |-> "list", list |-> l]

\* A text is a sequence of characters; "NL" is the newline.
Lower(c) == IF c = "A" THEN "a" ELSE IF c = "B" THEN "b" ELSE c
LowerText(t) == [i \in 1..Len(t) |-> Lower(t[i])]

NoEmbed == <<>>

\* The messages of the guild.  A message's id is its snowflake; created_at
\* is the time the snowflake embeds, so ids order messages by creation.
MsgChannel(m) == IF m % 2 = 1 THEN "c1" ELSE "c2"
MsgAuthor(m) == IF m % 3 = 1 THEN "u1" ELSE IF m % 3 = 2 THEN "bot" ELSE "u2"
MsgContent(m) == IF m % 4 = 1 THEN <<"A", "b">>
                 ELSE IF m % 4 = 2 THEN <<"b">>
                 ELSE IF m % 4 = 3 THEN <<>>
                 ELSE <<"a">>
\* The embed attributes in the order predicate_regex appends them:
\* title, description, footer.text, author.name, then each field's name, value.
MsgEmbeds(m) == IF m % 4 = 3 THEN << << <<"a">>, <<>>, <<>>, <<"B">> >> >>
                ELSE NoEmbed
created_at(m) == m
IsBot(u) == u = "bot"
\* The moderators' channel, where the invocation message is kept.
is_mod_channel(channel) == channel = "c2"

\* ----------------------------------------------------- _validate_input
\* Python truthiness of the optional arguments.
HasLimit(l) == l.kind # "none"
HasChannels(channels) == channels.kind # "none"

\* Line 94 tests first_limit in both isinstance calls.
LimitWithChannels(first_limit, second_limit, channels) ==
    (first_limit.kind = "message" \/ first_limit.kind = "message") /\ HasChannels(channels)

LimitsInDifferentChannels(first_limit, second_limit) ==
    /\ first_limit.kind = "message"
    /\ second_limit.kind = "message"
    /\ MsgChannel(first_limit.v) # MsgChannel(second_limit.v)

\* The ceiling check left out.
TraverseOverLimit_Never(traverse) == FALSE

TraverseOverLimit(traverse) == traverse > message_limit

\* "ok", or the exception raised.
_validate_input(q) ==
    IF TraverseOverLimit(q.traverse) THEN "BadArgument"
    ELSE IF LimitWithChannels(q.first_limit, q.second_limit, q.channels) THEN "BadArgument"
    ELSE IF LimitsInDifferentChannels(q.first_limit, q.second_limit) THEN "BadArgument"
    ELSE IF q.users # {} /\ q.bots_only THEN "BadArgument"
    ELSE IF HasLimit(q.second_limit) /\ ~HasLimit(q.first_limit) THEN "ValueError"
    ELSE "ok"

\* ----------------------------------------------------- _build_predicate
\* re.search of a pattern of literal characters: a substring search.
Search(pat, text) ==
    \E i \in 0..(Len(text) - Len(pat)) : SubSeq(text, i + 1, i + Len(pat)) = pat

RECURSIVE EmbedAttrs(_)
EmbedAttrs(embeds) ==
    IF embeds = <<>> THEN <<>> ELSE Head(embeds) \o EmbedAttrs(Tail(embeds))

RECURSIVE Join(_)
\* "\n".join(attrs)
Join(attrs) ==
    IF attrs = <<>> THEN <<>>
    ELSE IF Len(attrs) = 1 THEN attrs[1]
    ELSE attrs[1] \o <<"NL">> \o Join(Tail(attrs))

RECURSIVE NonEmpty(_)
\* [attr for attr in content if attr]
NonEmpty(attrs) ==
    IF attrs = <<>> THEN <<>>
    ELSE (IF Head(attrs) # <<>> THEN <<Head(attrs)>> ELSE <<>>) \o NonEmpty(Tail(attrs))

predicate_bots_only(m) == IsBot(MsgAuthor(m))
predicate_specific_users(users, m) == MsgAuthor(m) \in users
predicate_regex(regex, m) ==
    LET content == Join(NonEmpty(<<MsgContent(m)>> \o EmbedAttrs(MsgEmbeds(m))))
    IN  IF content = <<>> THEN FALSE
        ELSE Search(LowerText(regex), LowerText(content))
predicate_range(first_limit, second_limit, m) ==
    first_limit.v <= created_at(m) /\ created_at(m) <= second_limit.v
predicate_after(first_limit, m) == created_at(m) >= first_limit.v

\* The list `predicates` of lines 158-170, as the names of the closures.
Predicates(bots_only, users, regex, first_limit, second_limit) ==
    (IF bots_only THEN <<"bots_only">> ELSE <<>>)
    \o (IF users # {} THEN <<"specific_users">> ELSE <<>>)
    \o (IF regex # <<>> THEN <<"regex">> ELSE <<>>)
    \o (IF HasLimit(second_limit) THEN <<"range">>
        ELSE IF HasLimit(first_limit) THEN <<"after">>
        ELSE <<>>)

ApplyPredicate(name, users, regex, first_limit, second_limit, m) ==
    CASE name = "bots_only" -> predicate_bots_only(m)
      [] name = "specific_users" -> predicate_specific_users(users, m)
      [] name = "regex" -> predicate_regex(regex, m)
      [] name = "range" -> predicate_range(first_limit, second_limit, m)
      [] name = "after" -> predicate_after(first_limit, m)

\* any() in place of all().
Combine_Any(results) == \E i \in 1..Len(results) : results[i]

\* How lines 172-177 combine the list: all of them.
Combine(results) == \A i \in 1..Len(results) : results[i]

\* The predicate _build_predicate returns, applied to message m.
_build_predicate(bots_only, users, regex, first_limit, second_limit, m) ==
    LET predicates == Predicates(bots_only, users, regex, first_limit, second_limit)
        results == [i \in 1..Len(predicates) |->
                       ApplyPredicate(predicates[i], users, regex, first_limit, second_limit, m)]
    IN  IF predicates = <<>> THEN TRUE
        ELSE IF Len(predicates) = 1 THEN results[1]
        ELSE Combine(results)

\* ------------------------------------------- _clean_messages, lines 345-363
\* The channels a run works on: "*" stays "*".
DefaultChannels(q) ==
    IF HasChannels(q.channels) THEN q.channels
    ELSE IF q.first_limit.kind = "message" THEN ChannelList(<<MsgChannel(q.first_limit.v)>>)
    ELSE IF q.second_limit.kind = "message" THEN ChannelList(<<MsgChannel(q.second_limit.v)>>)
    ELSE ChannelList(<<q.ctx_channel>>)

\* A message limit becomes its creation time.
LimitTime(l) == IF l.kind = "message" THEN DateLimit(created_at(l.v)) ELSE l

\* Line 360 left out: the limits stay in the caller's order.
SortLimits_AsGiven(first, second) == <<first, second>>

\* sorted([first_limit, second_limit]) when both are given.
SortLimits(first, second) ==
    IF HasLimit(first) /\ HasLimit(second)
    THEN <<DateLimit(Min(first.v, second.v)), DateLimit(Max(first.v, second.v))>>
    ELSE <<first, second>>

StandardLimits(q) == SortLimits(LimitTime(q.first_limit), LimitTime(q.second_limit))

\* Whether message m is one the run of request q is to delete.
ToDelete(q, m) ==
    LET lim == StandardLimits(q)
    IN  _build_predicate(q.bots_only, q.users, q.regex, lim[1], lim[2], m)

\* use_cache alone decides.
UseCachePath_AnyScope(channels, use_cache) == use_cache

\* Line 374: the cache is scanned only for "*" with use_cache.
UseCachePath(channels, use_cache) == channels.kind = "all" /\ use_cache

\* ------------------------------------------------------------- the state
VARIABLES
    cleaning,         \* Clean.cleaning
    run,              \* per invocation of _clean_messages: its frame
    exists,           \* the messages the platform still holds
    cached_messages,  \* bot.cached_messages, oldest first
    cutoff,           \* two_weeks_old_snowflake at the current time
    owner             \* history: the invocation that last set cleaning True (0: none)

vars == <<cleaning, run, exists, cached_messages, cutoff, owner>>

\* The platform's per-call maximum of a bulk delete (line 276).
BulkDeleteMax == 100

\* The places a run waits at (an await on the gateway or the log sink).
GatherPcs == {"del_invocation", "history"}
DeletePcs == {"bulk_full", "individual", "bulk_rest"}
LogPcs == {"send_nomatch", "upload_log", "send_log", "add_reaction"}
WorkingPcs == GatherPcs \cup DeletePcs
AwaitPcs == WorkingPcs \cup LogPcs
\* How an invocation ends: returned, or raised out of _clean_messages.
EndPcs == {"done", "rejected", "conflict", "raised", "help"}

NoRequest ==
    [traverse |-> 0, channels |-> NoChannels, bots_only |-> FALSE, users |-> {},
     regex |-> <<>>, first_limit |-> NoLimit, second_limit |-> NoLimit,
     use_cache |-> FALSE, ctx_channel |-> "c2"]

\* The frame of an invocation that has not been made yet.
IdleRun ==
    [pc |-> "idle", q |-> NoRequest,
     scope |-> <<>>, ci |-> 1,           \* channels to fetch or delete in, and the current one
     message_mappings |-> <<>>,          \* channel -> matched messages, in insertion order
     message_ids |-> <<>>,
     mi |-> 1, to_delete |-> <<>>, deleted |-> <<>>,
     ind |-> <<>>, ii |-> 1, ind_deleted |-> <<>>,  \* _delete_messages_individually
     calls |-> <<>>,                     \* history: the calls the run issued
     ignored |-> {},                     \* history: ids the run passed to mod_log.ignore
     examined |-> <<>>,                  \* history: the entries the gatherer looked at
     absent |-> <<>>,                    \* history: messages whose delete raised NotFound
     failed |-> 0,                       \* history: the call that raised another error (0: none)
     cancelled |-> FALSE,                \* history: clean_cancel ran while the run worked
     released |-> FALSE]                 \* history: the run executed line 395

\* ctx.message of invocation r: a message outside the ones gathered.
InvocationMessage(r) == NumMsgs + r

\* Every message there is at the start: the guild's and the invoking ones.
Posted == MsgIds \cup {InvocationMessage(r) : r \in RunIds}

\* History: the run issues a call; flag is self.cleaning and late whether
\* clean_cancel has run since the run started.
Issue(st, cl, kind, channel, msgs) ==
    [st EXCEPT !.calls = Append(@, [kind |-> kind, channel |-> channel, msgs |-> msgs,
                                     flag |-> cl, late |-> st.cancelled])]

\* --------------------------------------------------------- is_older_than_14d
\* <= in place of <.
is_older_than_14d_OrEqual(m, two_weeks_old_snowflake) == m <= two_weeks_old_snowflake

\* message.id < two_weeks_old_snowflake
is_older_than_14d(m, two_weeks_old_snowflake) == m < two_weeks_old_snowflake

\* 14 * 24 * 60 * 60 seconds, in milliseconds (line 229).
FourteenDays == 14 * 24 * 60 * 60 * 1000

\* The bits of a snowflake below its timestamp (line 229).
SnowflakeShift == 22

\* Line 229, with `now` the clock in whole milliseconds since the platform's
\* epoch (time.time() * 1000.0 - 1420070400000).
two_weeks_old_snowflake(now) == (now - FourteenDays) * 2^SnowflakeShift

\* The id of a message created at time `created` (milliseconds since the
\* platform's epoch) whose low bits are `low`.
Snowflake(created, low) == created * 2^SnowflakeShift + low

\* ------------------------------------------------------------- _log_clean
\* Lines 395-397: release the flag, then log what was deleted.
LogClean(st) ==
    IF st.deleted = <<>>
    THEN Issue([st EXCEPT !.pc = "send_nomatch"], FALSE, "send", st.q.ctx_channel, <<>>)
    ELSE Issue([st EXCEPT !.pc = "upload_log"], FALSE, "upload_log", "", st.deleted)

\* Line 395 left out: the flag is not released.
ReturnDeleted_KeepFlag(st) == LogClean(st)

\* The batch not flushed yet is returned with the deleted messages.
ReturnDeleted_WithBatch(st) ==
    LogClean([st EXCEPT !.released = TRUE, !.deleted = @ \o st.to_delete])

\* _delete_found has returned st.deleted: line 395, then _log_clean up to its first await.
ReturnDeleted(st) == LogClean([st EXCEPT !.released = TRUE])

\* ----------------------------------------------------------- _delete_found
\* Flushes one message late.
FullAt_Late(to_delete, mi) == mi + (BulkDeleteMax - Len(to_delete))

\* The index of the message whose append makes len(to_delete) == 100 (line
\* 276), when the batch holds to_delete before message mi is appended.
FullAt(to_delete, mi) == mi + (BulkDeleteMax - Len(to_delete)) - 1

\* The age check left out: no message is found too old.
FirstOld_Never(messages, mi, cut) == Len(messages) + 1

\* The first index from mi on whose message line 265 finds too old, or
\* Len(messages) + 1.
FirstOld(messages, mi, cut) ==
    LET olds == {j \in mi..Len(messages) : is_older_than_14d(messages[j], cut)}
    IN  IF olds = {} THEN Len(messages) + 1
        ELSE CHOOSE j \in olds : \A k \in olds : j <= k

\* The checkpoints never see the flag lowered.
Stopped_Never(cl) == FALSE

\* The cancellation checkpoint of lines 261, 237 and 269.
Stopped(cl) == ~cl

RECURSIVE DeleteLoop(_, _, _)
RECURSIVE IndividualLoop(_, _, _)
\* _delete_found from message st.mi of channel st.ci on, up to its next await
\* or its return; cl is self.cleaning, cut the snowflake two weeks back.
\* Nothing is awaited between two messages that are only appended, so the
\* loop of line 260 is run forward to the first message that leaves it: one
\* too old (line 265), one that fills the batch (line 276), or the end.
DeleteLoop(st, cl, cut) ==
    IF st.ci > Len(st.message_mappings) THEN ReturnDeleted(st)
    ELSE
      LET channel == st.message_mappings[st.ci].channel
          messages == st.message_mappings[st.ci].msgs
          old == FirstOld(messages, st.mi, cut)
          full == FullAt(st.to_delete, st.mi)
      IN
      IF st.mi > Len(messages)
      THEN \* line 282, the leftover batch
           IF Len(st.to_delete) > 0
           THEN Issue([st EXCEPT !.pc = "bulk_rest"], cl, "bulk_delete", channel, st.to_delete)
           ELSE DeleteLoop([st EXCEPT !.ci = @ + 1, !.mi = 1, !.to_delete = <<>>], cl, cut)
      ELSE IF Stopped(cl) THEN ReturnDeleted(st)
      ELSE IF old <= Len(messages) /\ old <= full
      THEN \* _delete_messages_individually(messages[current_index:])
           IndividualLoop([st EXCEPT !.to_delete = @ \o SubSeq(messages, st.mi, old - 1),
                                     !.mi = old,
                                     !.ind = Drop(messages, old), !.ii = 1,
                                     !.ind_deleted = <<>>], cl, cut)
      ELSE IF full <= Len(messages)
      THEN LET st1 == [st EXCEPT !.to_delete = @ \o SubSeq(messages, st.mi, full),
                                 !.mi = full]
           IN  Issue([st1 EXCEPT !.pc = "bulk_full"], cl, "bulk_delete", channel,
                     st1.to_delete)
      ELSE DeleteLoop([st EXCEPT !.to_delete = @ \o SubSeq(messages, st.mi, Len(messages)),
                                 !.mi = Len(messages) + 1], cl, cut)

\* _delete_messages_individually from entry st.ii on, then lines 268-272.
IndividualLoop(st, cl, cut) ==
    IF st.ii <= Len(st.ind) /\ ~Stopped(cl)
    THEN Issue([st EXCEPT !.pc = "individual"], cl, "delete",
               st.message_mappings[st.ci].channel, <<st.ind[st.ii]>>)
    ELSE
      LET st1 == [st EXCEPT !.deleted = @ \o st.ind_deleted, !.ind = <<>>, !.ii = 1,
                            !.ind_deleted = <<>>]
      IN  IF Stopped(cl) THEN ReturnDeleted(st1)
          ELSE \* break: on to line 282 of the same channel
               DeleteLoop([st1 EXCEPT !.mi = Len(st.message_mappings[st.ci].msgs) + 1], cl, cut)

\* ------------------------------------------------------------- gathering
RECURSIVE AddMatch(_, _, _)
\* message_mappings[channel].append(m), keeping the dict's insertion order.
AddMatch(mappings, channel, m) ==
    IF mappings = <<>> THEN << [channel |-> channel, msgs |-> <<m>>] >>
    ELSE IF Head(mappings).channel = channel
    THEN << [Head(mappings) EXCEPT !.msgs = Append(@, m)] >> \o Tail(mappings)
    ELSE << Head(mappings) >> \o AddMatch(Tail(mappings), channel, m)

RECURSIVE AddMatches(_, _, _)
AddMatches(mappings, ms, q) ==
    IF ms = <<>> THEN mappings
    ELSE AddMatches(IF ToDelete(q, Head(ms)) THEN AddMatch(mappings, MsgChannel(Head(ms)), Head(ms))
                    ELSE mappings,
                    Tail(ms), q)

Matching(ms, q) == Filter(ms, {m \in Range(ms) : ToDelete(q, m)})

\* mod_log.ignore(Event.message_delete, *ids): the ids go on the ignore list.
Ignore(st, cl, ids) ==
    Issue([st EXCEPT !.ignored = @ \cup Range(ids)], cl, "ignore", "", ids)

\* Line 393 left out: the candidates are deleted without being ignored.
AfterGather_NoIgnore(st, cl, cut) ==
    IF Stopped(cl) THEN [st EXCEPT !.pc = "done"]
    ELSE DeleteLoop([st EXCEPT !.ci = 1, !.mi = 1, !.to_delete = <<>>, !.deleted = <<>>],
                    cl, cut)

\* Lines 388-394: the check after gathering, ignore, then _delete_found.
AfterGather(st, cl, cut) ==
    IF Stopped(cl) THEN [st EXCEPT !.pc = "done"]
    ELSE DeleteLoop([Ignore(st, cl, st.message_ids)
                       EXCEPT !.ci = 1, !.mi = 1, !.to_delete = <<>>, !.deleted = <<>>],
                    cl, cut)

\* The whole cache, whatever traverse is.
CacheSlice_All(cache, traverse) == cache

\* The entries islice(self.bot.cached_messages, traverse) yields.
CacheSlice(cache, traverse) == Take(cache, traverse)

\* _get_messages_from_cache: nothing is awaited, so the flag read before each
\* entry is the one value cl.
GetMessagesFromCache(st, cache, cl) ==
    LET entries == CacheSlice(cache, st.q.traverse)
        seen == IF Stopped(cl) THEN <<>> ELSE entries
    IN  [st EXCEPT !.message_mappings = AddMatches(<<>>, seen, st.q),
                   !.message_ids = Matching(seen, st.q),
                   !.examined = seen,
                   !.calls = Append(@, [kind |-> "cache", channel |-> "", msgs |-> cache,
                                        flag |-> cl, late |-> st.cancelled])]

\* Line 379: every text channel of the guild.
DeletionChannels(channels) == IF channels.kind = "all" THEN Channels ELSE channels.list

\* Lines 374-386 up to the first await of the gatherer.
Gather(st, cache, cl, cut) ==
    LET channels == DefaultChannels(st.q)
    IN  IF UseCachePath(channels, st.q.use_cache)
        THEN AfterGather(GetMessagesFromCache(st, cache, cl), cl, cut)
        ELSE LET st1 == [st EXCEPT !.scope = DeletionChannels(channels), !.ci = 1]
             IN  IF st1.scope = <<>> THEN AfterGather(st1, cl, cut)
                 ELSE Issue([st1 EXCEPT !.pc = "history"], cl, "history", st1.scope[1], <<>>)

RECURSIVE Descending(_, _)
\* The members of the set of ids S from the largest down, at most n of them.
Descending(S, n) ==
    IF S = {} \/ n <= 0 THEN <<>>
    ELSE LET top == CHOOSE x \in S : \A y \in S : y <= x
         IN  <<top>> \o Descending(S \ {top}, n - 1)

RECURSIVE Ascending(_, _)
Ascending(S, n) ==
    IF S = {} \/ n <= 0 THEN <<>>
    ELSE LET low == CHOOSE x \in S : \A y \in S : x <= y
         IN  <<low>> \o Ascending(S \ {low}, n - 1)

\* limit=traverse not passed on: the whole channel is fetched.
History_Unlimited(channel, limit, before, after, held) ==
    LET inRange == {m \in held \cap MsgIds :
                                 /\ MsgChannel(m) = channel
                                 /\ (HasLimit(before) => created_at(m) < before.v)
                                 /\ (HasLimit(after) => created_at(m) > after.v)}
    IN  IF HasLimit(after) THEN Ascending(inRange, NumMsgs) ELSE Descending(inRange, NumMsgs)

\* channel.history(limit, before, after): the messages of the channel strictly
\* between the bounds, newest first, or oldest first when `after` is given.
History(channel, limit, before, after, held) ==
    LET inRange == {m \in held \cap MsgIds :
                                 /\ MsgChannel(m) = channel
                                 /\ (HasLimit(before) => created_at(m) < before.v)
                                 /\ (HasLimit(after) => created_at(m) > after.v)}
    IN  IF HasLimit(after) THEN Ascending(inRange, limit) ELSE Descending(inRange, limit)

\* --------------------------------------------------------------- actions
\* The gateway's message-delete event: the client drops the messages from its
\* cache.
Evict(cache, gone) == Filter(cache, Range(cache) \ gone)

\* The single-flight check left out.
AlreadyCleaning_Never(cl) == FALSE

\* Line 341: the single-flight check.
AlreadyCleaning(cl) == cl

\* What a stretch of run code leaves in self.cleaning: False once line 395 ran in it.
FlagAfter(before, st, cl) == IF st.released /\ ~before.released THEN FALSE ELSE cl

\* _clean_messages is called with request q: lines 338-343 and on to the first await.
Invoke(r, q) ==
    /\ run[r].pc = "idle"
    /\ \A k \in 1..(r - 1) : run[k].pc # "idle"
    /\ IF _validate_input(q) # "ok"
       THEN /\ run' = [run EXCEPT ![r] = [@ EXCEPT !.pc = "rejected", !.q = q]]
            /\ UNCHANGED <<cleaning, owner>>
       ELSE IF AlreadyCleaning(cleaning)
       THEN /\ run' = [run EXCEPT ![r] = [@ EXCEPT !.pc = "conflict", !.q = q]]
            /\ UNCHANGED <<cleaning, owner>>
       ELSE LET st0 == [IdleRun EXCEPT !.q = q]
                st1 == IF ~is_mod_channel(q.ctx_channel)
                       THEN Issue([Ignore(st0, TRUE, <<InvocationMessage(r)>>)
                                     EXCEPT !.pc = "del_invocation"],
                                  TRUE, "delete_invocation", q.ctx_channel, <<InvocationMessage(r)>>)
                       ELSE Gather(st0, cached_messages, TRUE, cutoff)
            IN  /\ run' = [run EXCEPT ![r] = st1]
                /\ cleaning' = FlagAfter(st0, st1, TRUE)
                /\ owner' = r
    /\ UNCHANGED <<exists, cached_messages, cutoff>>

\* ctx.message.delete() returned, or raised NotFound for a message already
\* gone, which line 370 catches (lines 369-372).
InvocationDeleted(r) ==
    /\ run[r].pc = "del_invocation"
    /\ LET st0 == IF InvocationMessage(r) \in exists THEN run[r]
                  ELSE [run[r] EXCEPT !.absent = Append(@, InvocationMessage(r))]
           st1 == Gather(st0, cached_messages, cleaning, cutoff)
       IN  /\ run' = [run EXCEPT ![r] = st1]
           /\ cleaning' = FlagAfter(run[r], st1, cleaning)
    /\ exists' = exists \ {InvocationMessage(r)}
    /\ UNCHANGED <<cached_messages, cutoff, owner>>

\* The matches of the channels before are kept.
CancelledGather_Partial(st) == st

\* Line 212: `return defaultdict(list), []`.
CancelledGather(st) == [st EXCEPT !.message_mappings = <<>>, !.message_ids = <<>>]

\* The page of channel.history arrived: lines 208-216 for its messages, then
\* the next channel's request or lines 388-394.
HistoryReturns(r) ==
    /\ run[r].pc = "history"
    /\ LET st == run[r]
           lim == StandardLimits(st.q)
           page == History(st.scope[st.ci], st.q.traverse, lim[2], lim[1], exists)
           st1 == IF page # <<>> /\ Stopped(cleaning)
                  THEN AfterGather(CancelledGather(st), cleaning, cutoff)
                  ELSE LET st2 == [st EXCEPT
                                     !.message_mappings = AddMatches(@, page, st.q),
                                     !.message_ids = @ \o Matching(page, st.q),
                                     !.examined = @ \o page]
                       IN  IF st.ci < Len(st.scope)
                           THEN Issue([st2 EXCEPT !.ci = @ + 1], cleaning, "history",
                                      st.scope[st.ci + 1], <<>>)
                           ELSE AfterGather(st2, cleaning, cutoff)
       IN  /\ run' = [run EXCEPT ![r] = st1]
           /\ cleaning' = FlagAfter(st, st1, cleaning)
    /\ UNCHANGED <<exists, cached_messages, cutoff, owner>>

\* channel.delete_messages(to_delete) returned: lines 279-280, or line 285.
BulkDeleteReturns(r) ==
    /\ run[r].pc \in {"bulk_full", "bulk_rest"}
    /\ LET st == run[r]
           st1 == [st EXCEPT !.deleted = @ \o st.to_delete, !.to_delete = <<>>]
           st2 == IF st.pc = "bulk_full"
                  THEN DeleteLoop([st1 EXCEPT !.mi = @ + 1], cleaning, cutoff)
                  ELSE DeleteLoop([st1 EXCEPT !.ci = @ + 1, !.mi = 1], cleaning, cutoff)
       IN  /\ run' = [run EXCEPT ![r] = st2]
           /\ cleaning' = FlagAfter(st, st2, cleaning)
           /\ exists' = exists \ Range(st.to_delete)
           /\ cached_messages' = Evict(cached_messages, Range(st.to_delete))
    /\ UNCHANGED <<cutoff, owner>>

\* NotFound handled like a success: the message counts as deleted.
AfterDelete_CountsAbsent(st, message, held) ==
    [st EXCEPT !.ind_deleted = Append(@, message), !.ii = @ + 1,
               !.absent = IF message \in held THEN @ ELSE Append(@, message)]

\* Lines 239-245: message.delete() returned and the message is appended to
\* `deleted`, or it raised NotFound for a message already gone and the loop
\* continues.
AfterDelete(st, message, held) ==
    IF message \in held
    THEN [st EXCEPT !.ind_deleted = Append(@, message), !.ii = @ + 1]
    ELSE [st EXCEPT !.ii = @ + 1, !.absent = Append(@, message)]

\* message.delete() returned, or raised NotFound (lines 239-245), and the
\* loop of line 235 goes on.
IndividualDeleteReturns(r) ==
    /\ run[r].pc = "individual"
    /\ LET st == run[r]
           message == st.ind[st.ii]
           st1 == AfterDelete(st, message, exists)
           st2 == IndividualLoop(st1, cleaning, cutoff)
       IN  /\ run' = [run EXCEPT ![r] = st2]
           /\ cleaning' = FlagAfter(st, st2, cleaning)
           /\ exists' = exists \ {message}
           /\ cached_messages' = Evict(cached_messages, {message})
    /\ UNCHANGED <<cutoff, owner>>

\* An await of _log_clean or of line 401 returned.
LogReturns(r) ==
    /\ run[r].pc \in LogPcs
    /\ LET st == run[r]
           st1 == CASE st.pc = "send_nomatch" -> [st EXCEPT !.pc = "done"]
                    [] st.pc = "upload_log" ->
                         Issue([st EXCEPT !.pc = "send_log"], cleaning, "send_log_message", "",
                               st.deleted)
                    [] st.pc = "send_log" ->
                         IF is_mod_channel(st.q.ctx_channel)
                         THEN Issue([st EXCEPT !.pc = "add_reaction"], cleaning, "add_reaction",
                                    st.q.ctx_channel, <<>>)
                         ELSE [st EXCEPT !.pc = "done"]
                    [] st.pc = "add_reaction" -> [st EXCEPT !.pc = "done"]
       IN  run' = [run EXCEPT ![r] = st1]
    /\ UNCHANGED <<cleaning, exists, cached_messages, cutoff, owner>>

\* The failed call is caught and issued again.
CallRaises_Retried(r) ==
    /\ run[r].pc \in AwaitPcs
    /\ LET st == run[r]
           call == st.calls[Len(st.calls)]
       IN  run' = [run EXCEPT ![r] = Issue([st EXCEPT !.failed = Len(st.calls)], cleaning,
                                           call.kind, call.channel, call.msgs)]
    /\ UNCHANGED <<cleaning, exists, cached_messages, cutoff, owner>>

\* An awaited call failed with an error other than NotFound: nothing in
\* _clean_messages catches it.
CallRaises(r) ==
    /\ run[r].pc \in AwaitPcs
    /\ run' = [run EXCEPT ![r] = [@ EXCEPT !.pc = "raised", !.failed = Len(run[r].calls)]]
    /\ UNCHANGED <<cleaning, exists, cached_messages, cutoff, owner>>

\* The flag is flipped instead of lowered.
CancelFlag_Toggled(cl) == ~cl

\* Line 555: what clean_cancel leaves in self.cleaning.
CancelFlag(cl) == FALSE

\* History: the runs at work when clean_cancel is invoked have been cancelled.
CancelRuns(rn) ==
    [r \in RunIds |->
       IF rn[r].pc \in WorkingPcs THEN [rn[r] EXCEPT !.cancelled = TRUE] ELSE rn[r]]

\* clean_cancel, line 555.
clean_cancel ==
    /\ cleaning' = CancelFlag(cleaning)
    /\ run' = CancelRuns(run)
    /\ UNCHANGED <<exists, cached_messages, cutoff, owner>>

\* A message's author, or another moderator, deletes it.
AuthorDeletes(m) ==
    /\ m \in exists
    /\ exists' = exists \ {m}
    /\ cached_messages' = Evict(cached_messages, {m})
    /\ UNCHANGED <<cleaning, run, cutoff, owner>>

\* Time passes: the snowflake two weeks back grows.
Tick ==
    /\ cutoff < MaxCutoff
    /\ cutoff' = cutoff + 1
    /\ UNCHANGED <<cleaning, run, exists, cached_messages, owner>>

\* ------------------------------------------------------------ the requests
RequestsOf(traverses, channelss, botss, userss, regexes, firsts, seconds, caches, ctxs) ==
    [traverse : traverses, channels : channelss, bots_only : botss, users : userss,
     regex : regexes, first_limit : firsts, second_limit : seconds,
     use_cache : caches, ctx_channel : ctxs]

\* What clean_all and clean_bots pass on.
SubcommandRequests ==
    RequestsOf({message_limit}, {NoChannels, AllChannels},
               {FALSE}, {{}}, {<<>>}, {NoLimit}, {NoLimit}, BOOLEAN, {"c1", "c2"})

\* One request for each combination _validate_input refuses: `clean all` with
\* too large a traverse, `clean until` a message with a channel, `clean
\* between` messages of two channels, and users with bots_only.
RefusedRequests ==
    {[NoRequest EXCEPT !.traverse = message_limit + 1],
     [NoRequest EXCEPT !.traverse = message_limit, !.first_limit = MsgLimit(1),
                       !.channels = ChannelList(<<"c1">>)],
     [NoRequest EXCEPT !.traverse = message_limit, !.first_limit = MsgLimit(1),
                       !.second_limit = MsgLimit(2)],
     [NoRequest EXCEPT !.traverse = message_limit, !.users = {"u1"}, !.bots_only = TRUE]}

Init ==
    /\ cleaning = FALSE
    /\ run = [r \in RunIds |-> IdleRun]
    /\ exists = Posted
    /\ cached_messages = [i \in 1..NumMsgs |-> i]
    /\ cutoff = 1
    /\ owner = 0

Step(r) ==
    \/ CallRaises(r)
    \/ InvocationDeleted(r)
    \/ HistoryReturns(r)
    \/ BulkDeleteReturns(r)
    \/ IndividualDeleteReturns(r)
    \/ LogReturns(r)

Environment ==
    \/ clean_cancel
    \/ Tick

Next ==
    \/ \E r \in RunIds : \E q \in SubcommandRequests \cup RefusedRequests : Invoke(r, q)
    \/ \E r \in RunIds : Step(r)
    \/ Environment

Spec == Init /\ [][Next]_vars

\* ------------------------------------------------- runs that are scheduled
\* `clean all` over every channel, from either channel, with either path.
FairRequests ==
    RequestsOf({message_limit}, {AllChannels}, {FALSE}, {{}}, {<<>>}, {NoLimit}, {NoLimit},
               BOOLEAN, {"c1", "c2"})

\* The oldest messages are out of the bulk-delete window from the start.
InitFair ==
    /\ cleaning = FALSE
    /\ run = [r \in RunIds |-> IdleRun]
    /\ exists = Posted
    /\ cached_messages = [i \in 1..NumMsgs |-> i]
    /\ cutoff = MaxCutoff
    /\ owner = 0

NextFair ==
    \/ \E r \in RunIds : \E q \in FairRequests : Invoke(r, q)
    \/ \E r \in RunIds : Step(r)
    \/ clean_cancel

\* The event loop resumes every coroutine whose awaited call has returned or
\* raised: a run that can take a step eventually takes one.
SpecFair == InitFair /\ [][NextFair]_vars /\ \A r \in RunIds : WF_vars(Step(r))

\* ------------------------------------------- the master command's requests
\* What clean_group can pass on: every argument is the caller's.
MasterRequests ==
    RequestsOf(0..(message_limit + 1),
               {NoChannels, AllChannels, ChannelList(<<"c1", "c2">>), ChannelList(<<"c1", "c1">>)},
               BOOLEAN, {{}, {"u1"}}, {<<>>, <<"B">>},
               {NoLimit, DateLimit(3), MsgLimit(1), MsgLimit(NumMsgs)},
               {NoLimit, DateLimit(2), MsgLimit(2), MsgLimit(3)},
               BOOLEAN, {"c1", "c2"})

\* One request of the master command, alone on the cog.
NextInputs ==
    \/ run[1].pc = "idle" /\ \E q \in MasterRequests : Invoke(1, q)
    \/ \E r \in RunIds : Step(r)
    \/ Environment

\* The client's cache holds the newest messages, up to its size.
InitInputs ==
    /\ cleaning = FALSE
    /\ run = [r \in RunIds |-> IdleRun]
    /\ exists = Posted
    /\ \E size \in 0..NumMsgs : cached_messages = Drop([i \in 1..NumMsgs |-> i], NumMsgs - size + 1)
    /\ cutoff = 1
    /\ owner = 0

SpecInputs == InitInputs /\ [][NextInputs]_vars

\* ------------------------------------------------ the master command itself
\* DEFAULT_TRAVERSE (line 25) is 10, under the configured ceiling; the model
\* keeps it under its own ceiling.
DEFAULT_TRAVERSE == Min(10, message_limit)

\* What a caller can give clean_group: traverse 0 stands for none given, and
\* use_cache is None, True or False.
GroupArguments ==
    [traverse : 0..message_limit, users : {{}}, first_limit : {NoLimit, DateLimit(0)},
     second_limit : {NoLimit}, use_cache : {"None", "True", "False"}, bots_only : {FALSE},
     regex : {<<>>}, channels : {NoChannels, AllChannels, ChannelList(<<"c1", "c2">>)},
     ctx_channel : {"c1", "c2"}]

\* Line 436: nothing to go by, the command shows its help.
NothingGiven(a) ==
    ~(\/ a.traverse # 0 \/ a.users # {} \/ a.first_limit # NoLimit
      \/ a.second_limit # NoLimit \/ a.regex # <<>>)

\* Lines 445-446: `if not use_cache: use_cache = channels == "*"`.
DefaultUseCache(use_cache, channels) ==
    IF use_cache # "True" THEN channels.kind = "all" ELSE TRUE

\* Lines 440-450: the arguments clean_group hands to _clean_messages; args
\* keeps what the caller gave.
GroupRequest(a) ==
    [traverse |-> IF a.traverse = 0
                  THEN (IF a.first_limit # NoLimit THEN message_limit ELSE DEFAULT_TRAVERSE)
                  ELSE a.traverse,
     channels |-> a.channels, bots_only |-> a.bots_only, users |-> a.users,
     regex |-> a.regex, first_limit |-> a.first_limit, second_limit |-> a.second_limit,
     use_cache |-> DefaultUseCache(a.use_cache, a.channels),
     ctx_channel |-> a.ctx_channel, args |-> a]

\* clean_group is invoked with arguments a (lines 436-450).
clean_group(r, a) ==
    /\ run[r].pc = "idle"
    /\ IF NothingGiven(a)
       THEN /\ run' = [run EXCEPT ![r] = [@ EXCEPT !.pc = "help"]]
            /\ UNCHANGED <<cleaning, exists, cached_messages, cutoff, owner>>
       ELSE Invoke(r, GroupRequest(a))

NextGroup ==
    \/ \E a \in GroupArguments : clean_group(1, a)
    \/ \E r \in RunIds : Step(r)
    \/ Environment

SpecGroup == Init /\ [][NextGroup]_vars

\* --------------------------------------------- the two limits, every way
\* What a limit can be: absent, a datetime before, among or after the
\* messages, or a message of either channel.
Limits ==
    {NoLimit, DateLimit(0), DateLimit(2), DateLimit(NumMsgs + 1),
     MsgLimit(1), MsgLimit(2), MsgLimit(3)}

\* Requests that differ in their limits and scope only.
LimitRequests ==
    RequestsOf({message_limit}, {NoChannels, AllChannels, ChannelList(<<"c1", "c2">>)},
               {FALSE}, {{}}, {<<>>}, Limits, Limits, BOOLEAN, {"c1", "c2"})

NextLimits ==
    \/ run[1].pc = "idle" /\ \E q \in LimitRequests : Invoke(1, q)
    \/ \E r \in RunIds : Step(r)
    \/ Environment

SpecLimits == Init /\ [][NextLimits]_vars

\* ------------------------------------------ infractions: apply_ban, apply_kick
\* Commands one cog handles in a behaviour.
MaxCommands == 2

\* The length the tests expect an audit-log reason to be cut to
\* (test_infractions.py, lines 35 and 52).
ReasonLimit == 512

\* Reasons, by their length in characters: none, one that just fits, one a
\* character too long, and the tests' "foo bar" * 3000.
Reasons == {0, ReasonLimit, ReasonLimit + 1, 7 * 3000}

Targets == {"u1", "u2"}

\* What utils.post_infraction returns: None (0) or the infraction's id.
PostedInfractions == {0, 1}

\* The reason apply_ban and apply_kick hand to ctx.guild.ban and to
\* Member.kick: `reason=reason` (lines 223 and 238).
ActionReason(reason) == reason

\* The calls of a command that got its infraction posted: mod_log.ignore,
\* the action (ban or kick) and apply_infraction with that action.
InfractionCalls(st, cmd, name, user, reason, infraction) ==
    LET action == Len(st.calls) + 3
    IN  st.calls \o
        << [kind |-> "post_infraction", cmd |-> cmd, user |-> user, reason |-> reason,
            infraction |-> infraction, action |-> 0],
           [kind |-> "ignore", cmd |-> cmd, user |-> user, reason |-> 0,
            infraction |-> 0, action |-> 0],
           [kind |-> name, cmd |-> cmd, user |-> user, reason |-> ActionReason(reason),
            infraction |-> 0, action |-> 0],
           [kind |-> "apply_infraction", cmd |-> cmd, user |-> user, reason |-> 0,
            infraction |-> infraction, action |-> action] >>

\* The calls of a command whose infraction could not be posted.
NotPosted(st, cmd, user, reason) ==
    Append(st.calls, [kind |-> "post_infraction", cmd |-> cmd, user |-> user,
                      reason |-> reason, infraction |-> 0, action |-> 0])

\* apply_ban (lines 226-239); permitted is what respect_role_hierarchy
\* decides, active what utils.has_active_infraction returns, infraction what
\* utils.post_infraction returns.
apply_ban(r, user, reason, permitted, active, infraction) ==
    /\ run[r].pc = "infractions"
    /\ Len(run[r].examined) < MaxCommands
    /\ LET st == run[r]
           cmd == Len(st.examined) + 1
           given == [name |-> "ban", user |-> user, reason |-> reason,
                     infraction |-> IF permitted /\ ~active THEN infraction ELSE 0]
       IN  run' = [run EXCEPT ![r] =
                     [st EXCEPT !.examined = Append(@, given),
                                !.calls = IF ~permitted \/ active THEN @
                                          ELSE IF infraction = 0
                                          THEN NotPosted(st, cmd, user, reason)
                                          ELSE InfractionCalls(st, cmd, "ban", user, reason,
                                                               infraction)]]
    /\ UNCHANGED <<cleaning, exists, cached_messages, cutoff, owner>>

\* apply_kick (lines 214-224).
apply_kick(r, user, reason, permitted, infraction) ==
    /\ run[r].pc = "infractions"
    /\ Len(run[r].examined) < MaxCommands
    /\ LET st == run[r]
           cmd == Len(st.examined) + 1
           given == [name |-> "kick", user |-> user, reason |-> reason,
                     infraction |-> IF permitted THEN infraction ELSE 0]
       IN  run' = [run EXCEPT ![r] =
                     [st EXCEPT !.examined = Append(@, given),
                                !.calls = IF ~permitted THEN @
                                          ELSE IF infraction = 0
                                          THEN NotPosted(st, cmd, user, reason)
                                          ELSE InfractionCalls(st, cmd, "kick", user, reason,
                                                               infraction)]]
    /\ UNCHANGED <<cleaning, exists, cached_messages, cutoff, owner>>

InitInfractions ==
    /\ cleaning = FALSE
    /\ run = [r \in RunIds |-> [IdleRun EXCEPT !.pc = "infractions"]]
    /\ exists = {}
    /\ cached_messages = <<>>
    /\ cutoff = 1
    /\ owner = 0

NextInfractions ==
    \/ \E user \in Targets : \E reason \in Reasons : \E infraction \in PostedInfractions :
         \E permitted \in BOOLEAN : \E active \in BOOLEAN :
             apply_ban(1, user, reason, permitted, active, infraction)
    \/ \E user \in Targets : \E reason \in Reasons : \E infraction \in PostedInfractions :
         \E permitted \in BOOLEAN :
             apply_kick(1, user, reason, permitted, infraction)

SpecInfractions == InitInfractions /\ [][NextInfractions]_vars

\* ------------------------------------- a clean while others delete messages
\* One sub-command request, while messages (the invoking one too) are deleted
\* by their authors; the clean may start when the oldest messages are
\* already out of the bulk-delete window.
InitAuthors ==
    /\ cleaning = FALSE
    /\ run = [r \in RunIds |-> IdleRun]
    /\ exists = Posted
    /\ cached_messages = [i \in 1..NumMsgs |-> i]
    /\ cutoff \in {1, MaxCutoff + 2}
    /\ owner = 0

NextAuthors ==
    \/ run[1].pc = "idle" /\ \E q \in SubcommandRequests : Invoke(1, q)
    \/ \E r \in RunIds : Step(r)
    \/ Environment
    \/ \E m \in Posted : AuthorDeletes(m)

SpecAuthors == InitAuthors /\ [][NextAuthors]_vars

\* ------------------------------------------------ _build_predicate alone
\* The arguments _build_predicate can be given: the limits are datetimes by
\* then, and a second limit never comes without the first.
PredicateInputs ==
    {q \in RequestsOf({0}, {NoChannels}, BOOLEAN, {{}, {"u1"}, {"u1", "bot"}},
                      {<<>>, <<"B">>, <<"a", "NL", "b">>},
                      {NoLimit, DateLimit(2), DateLimit(3)},
                      {NoLimit, DateLimit(2), DateLimit(NumMsgs)},
                      {FALSE}, {"c2"}) :
        HasLimit(q.second_limit) => HasLimit(q.first_limit)}

InitPredicate ==
    /\ cleaning = FALSE
    /\ \E q \in PredicateInputs :
         run = [r \in RunIds |-> [IdleRun EXCEPT !.pc = "predicate", !.q = q]]
    /\ exists = MsgIds
    /\ cached_messages = [i \in 1..NumMsgs |-> i]
    /\ cutoff = 1
    /\ owner = 0

\* The predicate built from the frame's arguments is applied to the next message.
PredicateCall(r) ==
    /\ run[r].pc = "predicate"
    /\ Len(run[r].examined) < NumMsgs
    /\ LET st == run[r]
           m == Len(st.examined) + 1
           accepted == _build_predicate(st.q.bots_only, st.q.users, st.q.regex,
                                        st.q.first_limit, st.q.second_limit, m)
       IN  run' = [run EXCEPT ![r] =
                     [st EXCEPT !.examined = Append(@, m),
                                !.message_ids = IF accepted THEN Append(@, m) ELSE @]]
    /\ UNCHANGED <<cleaning, exists, cached_messages, cutoff, owner>>

NextPredicate == PredicateCall(1)

SpecPredicate == InitPredicate /\ [][NextPredicate]_vars

\* ------------------------------------------------ is_older_than_14d alone
\* How far around the boundary, in milliseconds, the clock and the creation
\* times are taken.
AgeSpread == 2

\* The clock readings and the creation times tried: the creation times lie
\* around the earliest reading less fourteen days.
Clocks == {FourteenDays + AgeSpread + d : d \in 0..AgeSpread}
CreationTimes == 0..(2 * AgeSpread + 1)
\* The low 22 bits tried: none set, one set, all set.
LowBits == {0, 1, 2^SnowflakeShift - 1}

InitAge ==
    /\ cleaning = FALSE
    /\ run = [r \in RunIds |-> [IdleRun EXCEPT !.pc = "age"]]
    /\ exists = {}
    /\ cached_messages = <<>>
    /\ cutoff = two_weeks_old_snowflake(FourteenDays + AgeSpread)
    /\ owner = 0

\* is_older_than_14d is called for a message: the clock is read, never
\* earlier than at the last call, and the id compared.
AgeCall(r) ==
    /\ run[r].pc = "age"
    /\ Len(run[r].examined) < 2
    /\ \E now \in Clocks : \E created \in CreationTimes : \E low \in LowBits :
         /\ two_weeks_old_snowflake(now) >= cutoff
         /\ cutoff' = two_weeks_old_snowflake(now)
         /\ run' = [run EXCEPT ![r].examined =
                       Append(@, [now |-> now, created |-> created, low |-> low,
                                  older |-> is_older_than_14d(Snowflake(created, low),
                                                              cutoff')])]
    /\ UNCHANGED <<cleaning, exists, cached_messages, owner>>

NextAge == AgeCall(1)

SpecAge == InitAge /\ [][NextAge]_vars

\* ---------------------------------------------------- _delete_found alone
\* The longest list of matched messages in one channel.
MaxMatched == 201

\* The k newest-first messages of a channel: c1 holds the odd ids, c2 the even.
ChannelMessages(channel, k) ==
    [i \in 1..k |-> IF channel = "c1" THEN 2 * (k - i) + 1 ELSE 2 * (k - i) + 2]

\* The same messages oldest first, as channel.history yields them when
\* `after` is given.
ChannelMessagesAscending(channel, k) ==
    [i \in 1..k |-> IF channel = "c1" THEN 2 * i - 1 ELSE 2 * i]

\* The frame of a clean of both channels whose history requests matched n1
\* messages of c1 and n2 of c2, at line 388: `clean all`, or with ascending a
\* `clean until` whose first limit is older than every message.
Gathered(n1, n2, ascending) ==
    LET m1 == IF ascending THEN ChannelMessagesAscending("c1", n1) ELSE ChannelMessages("c1", n1)
        m2 == IF ascending THEN ChannelMessagesAscending("c2", n2) ELSE ChannelMessages("c2", n2)
        st == [IdleRun EXCEPT !.q = [NoRequest EXCEPT !.traverse = Max(n1, n2),
                                        !.channels = ChannelList(Channels),
                                        !.first_limit = IF ascending THEN DateLimit(0)
                                                        ELSE NoLimit],
                              !.scope = Channels, !.ci = 2]
        st1 == Issue(Issue(st, TRUE, "history", "c1", <<>>), TRUE, "history", "c2", <<>>)
    IN  [st1 EXCEPT !.message_mappings =
                        (IF n1 > 0 THEN << [channel |-> "c1", msgs |-> m1] >> ELSE <<>>)
                        \o (IF n2 > 0 THEN << [channel |-> "c2", msgs |-> m2] >> ELSE <<>>),
                    !.message_ids = m1 \o m2,
                    !.examined = m1 \o m2]

\* The matched messages that their authors may have deleted by the time the
\* run comes to them.
GoneSets == {{}, {1}, {3}}

\* The longest list tried oldest first or with messages gone: these cases do
\* not depend on the batches.
MaxShort == 5

InitDelete ==
    /\ \E n1 \in 0..MaxMatched : \E n2 \in {0, 2} : \E cut \in {1, MaxCutoff, MaxCutoff + 2} :
       \E ascending \in BOOLEAN : \E gone \in GoneSets :
         /\ (ascending \/ gone # {}) => n1 <= MaxShort
         /\ cutoff = cut
         /\ run = [r \in RunIds |->
                     IF r = 1 THEN AfterGather(Gathered(n1, n2, ascending), TRUE, cut)
                     ELSE IdleRun]
         /\ exists = (1..(2 * Max(n1, n2))) \ gone
    /\ cleaning = ~run[1].released
    /\ cached_messages = <<>>
    /\ owner = 1

NextDelete ==
    \/ \E r \in RunIds : \/ BulkDeleteReturns(r)
                         \/ IndividualDeleteReturns(r)
                         \/ LogReturns(r)
                         \/ CallRaises(r)
    \/ clean_cancel

SpecDelete == InitDelete /\ [][NextDelete]_vars

\* ------------------------------------------------------------ properties
\* The run passed validation and the single-flight check.
Started(r) == run[r].pc \notin {"idle", "rejected", "conflict", "help"}

\* The run is between its start and the end of its gathering and deleting.
Working(r) == run[r].pc \in WorkingPcs

DeletionCalls(r) ==
    {i \in 1..Len(run[r].calls) : run[r].calls[i].kind \in {"bulk_delete", "delete"}}

\* C1: single-flight.  At most one run is between its start and its exit
\* while still gathering or issuing deletion calls.
C1_SingleFlight ==
    \A r1, r2 \in RunIds : (Working(r1) /\ Working(r2)) => r1 = r2

\* A step in which invocation r, with a request validation accepts, is made
\* while the flag is True.
C2_ConflictStep(r) ==
    (/\ run[r].pc = "idle"
     /\ run'[r].pc # "idle"
     /\ cleaning
     /\ ~TraverseOverLimit(run'[r].q.traverse)
     /\ run'[r].pc # "rejected")
    => /\ run'[r].pc = "conflict"
       /\ cleaning'
       /\ run'[r].calls = <<>>
       /\ run'[r].ignored = {}
       /\ run'[r].deleted = <<>>
       /\ exists' = exists
       /\ owner' = owner
       /\ \A k \in RunIds \ {r} : run'[k] = run[k]

\* C2: a valid request that arrives while the cleaning flag is True raises
\* MaxConcurrencyReached, leaves the flag True, issues no call, ignores and
\* deletes nothing, and leaves every other run's frame as it was.
C2_ConflictLeavesRunAlone == [][\A r \in RunIds : C2_ConflictStep(r)]_vars

\* C2 witness: a request was turned away while another run was deleting.
C2_Witness ==
    \E r, k \in RunIds : /\ run[r].pc = "conflict"
                         /\ run[k].pc \in DeletePcs
                         /\ cleaning

\* C3: once clean_cancel has run during a run, that run issues no deletion
\* call that begins after the cancel.
C3_NoDeletionAfterCancel ==
    \A r \in RunIds : \A i \in DeletionCalls(r) : ~run[r].calls[i].late

\* C4 as stated: the flag is False at the moment a started run returns.
C4_FlagFalseAtReturn ==
    [][\A r \in RunIds :
         (Started(r) /\ run[r].pc # "done" /\ run'[r].pc = "done") => ~cleaning']_vars

\* C4 as amended: at the moment a started run returns, the flag is False
\* unless another invocation has set it True since this run started; the
\* returning run never leaves its own flag set.
C4_FlagNotHeldAtReturn ==
    [][\A r \in RunIds :
         (run[r].pc # "done" /\ run'[r].pc = "done") => (~cleaning' \/ owner' # r)]_vars

\* C4 witness: a run returned after deleting and logging, the flag is False.
C4_Witness ==
    \E r \in RunIds : /\ run[r].pc = "done"
                      /\ run[r].released
                      /\ run[r].deleted # <<>>
                      /\ ~cleaning

\* The combinations the claim lists (a message limit with channels as far as
\* line 94 tests it: on the first limit).
C5_Listed(q) ==
    \/ q.traverse > message_limit
    \/ q.first_limit.kind = "message" /\ q.channels.kind # "none"
    \/ /\ q.first_limit.kind = "message"
       /\ q.second_limit.kind = "message"
       /\ MsgChannel(q.first_limit.v) # MsgChannel(q.second_limit.v)
    \/ q.users # {} /\ q.bots_only

C5_RefusalStep(r) ==
    (run[r].pc = "idle" /\ run'[r].pc # "idle")
    => /\ C5_Listed(run'[r].q) => run'[r].pc = "rejected"
       /\ run'[r].pc = "rejected" =>
            /\ cleaning' = cleaning
            /\ exists' = exists
            /\ cached_messages' = cached_messages
            /\ owner' = owner
            /\ run'[r].calls = <<>>
            /\ run'[r].ignored = {}
            /\ run'[r].examined = <<>>
            /\ run'[r].deleted = <<>>
            /\ \A k \in RunIds \ {r} : run'[k] = run[k]

\* C5: a request that _validate_input refuses is refused before any side
\* effect: the flag keeps its value, nothing is fetched, scanned, ignored or
\* deleted; and a traverse over the ceiling, a first limit that is a message
\* together with channels, message limits in different channels, and users
\* together with bots_only are all refused.
C5_RefusedBeforeSideEffects == [][\A r \in RunIds : C5_RefusalStep(r)]_vars

\* C5 witness: a request was refused while another run held the flag.
C5_Witness ==
    \E r, k \in RunIds : /\ run[r].pc = "rejected"
                         /\ run[r].q.users # {}
                         /\ run[k].pc \in WorkingPcs
                         /\ cleaning

\* C6: a request with a message as either limit and a channel scope is
\* refused and never starts.
C6_MessageLimitWithChannelsRefused ==
    \A r \in RunIds :
        (/\ run[r].pc # "idle"
         /\ run[r].q.first_limit.kind = "message" \/ run[r].q.second_limit.kind = "message"
         /\ run[r].q.channels.kind # "none")
        => run[r].pc = "rejected"

\* Every filter that is present accepts message m.
C7_AllPresentAccept(bots_only, users, regex, first_limit, second_limit, m) ==
    /\ bots_only => IsBot(MsgAuthor(m))
    /\ users # {} => MsgAuthor(m) \in users
    /\ regex # <<>> => predicate_regex(regex, m)
    /\ (first_limit.kind # "none" /\ second_limit.kind = "none")
         => created_at(m) >= first_limit.v
    /\ (first_limit.kind # "none" /\ second_limit.kind # "none")
         => (first_limit.v <= created_at(m) /\ created_at(m) <= second_limit.v)

CallsOfKind(r, kind) == {i \in 1..Len(run[r].calls) : run[r].calls[i].kind = kind}

\* C8: a run reads the cache if and only if its scope is "*" and use_cache is
\* true, and then requests no history; any other run gathers through
\* channel.history alone.
C8_CacheIffWildcardAndUseCache ==
    \A r \in RunIds :
        Started(r) =>
            LET wanted == run[r].q.channels.kind = "all" /\ run[r].q.use_cache
                gathering == run[r].pc # "del_invocation" /\ run[r].pc # "raised"
            IN  /\ CallsOfKind(r, "cache") # {} => wanted
                /\ CallsOfKind(r, "history") # {} => ~wanted
                /\ (gathering /\ wanted) => CallsOfKind(r, "cache") # {}
                /\ (gathering /\ ~wanted) => CallsOfKind(r, "history") # {}

\* C8 witness: a "*" run with use_cache false went through history and deleted.
C8_Witness ==
    \E r \in RunIds : /\ run[r].q.channels.kind = "all"
                      /\ ~run[r].q.use_cache
                      /\ CallsOfKind(r, "history") # {}
                      /\ run[r].deleted # <<>>

\* The cache the run scanned, and whether the flag was up when it did.
ScannedCache(r) == run[r].calls[CHOOSE i \in CallsOfKind(r, "cache") : TRUE]

Accepts(q, m) ==
    LET lim == StandardLimits(q)
    IN  C7_AllPresentAccept(q.bots_only, q.users, q.regex, lim[1], lim[2], m)

\* C9 as stated: the cache path returns every cached message that satisfies
\* the predicate, whatever traverse is.
C9_ReturnsEveryCachedMatch ==
    \A r \in RunIds :
        (CallsOfKind(r, "cache") # {} /\ ScannedCache(r).flag) =>
            run[r].message_ids
              = Filter(ScannedCache(r).msgs, {m \in MsgIds : Accepts(run[r].q, m)})

\* C9 as amended: the cache path returns exactly the messages among the
\* first min(traverse, N) cache entries that satisfy the predicate, grouped
\* by channel and with their ids, and requests no history.
C9_ReturnsMatchesOfFirstTraverse ==
    \A r \in RunIds :
        (CallsOfKind(r, "cache") # {} /\ ScannedCache(r).flag) =>
            LET cache == ScannedCache(r).msgs
                first == [i \in 1..Min(run[r].q.traverse, Len(cache)) |-> cache[i]]
                hits == {m \in Range(first) : Accepts(run[r].q, m)}
            IN  /\ run[r].message_ids = Filter(first, hits)
                /\ \A i \in 1..Len(run[r].message_mappings) :
                     LET e == run[r].message_mappings[i]
                     IN  /\ e.msgs # <<>>
                         /\ e.msgs = Filter(first, {m \in hits : MsgChannel(m) = e.channel})
                /\ \A m \in hits :
                     \E i \in 1..Len(run[r].message_mappings) :
                         run[r].message_mappings[i].channel = MsgChannel(m)
                /\ CallsOfKind(r, "history") = {}

\* C9 witness: a scan cut short by traverse, with a match and a miss in it.
C9_Witness ==
    \E r \in RunIds :
        /\ CallsOfKind(r, "cache") # {}
        /\ ScannedCache(r).flag
        /\ run[r].q.traverse = 2
        /\ Len(ScannedCache(r).msgs) > 2
        /\ Len(run[r].message_ids) = 1

\* The message lists of the bulk deletes run r issued for a channel, in order.
BulkCalls(r, channel) ==
    LET idx == {i \in 1..Len(run[r].calls) :
                   run[r].calls[i].kind = "bulk_delete" /\ run[r].calls[i].channel = channel}
        RECURSIVE Pick(_)
        Pick(i) == IF i > Len(run[r].calls) THEN <<>>
                   ELSE (IF i \in idx THEN <<run[r].calls[i].msgs>> ELSE <<>>) \o Pick(i + 1)
    IN  Pick(1)

\* C10: for a channel whose n matched messages are all within the window,
\* with no cancellation, _delete_found issues ceil(n/100) bulk deletes for
\* it, each of 1 to 100 messages, all but the last of 100, which together
\* are the matched list in its order.
C10_BulkBatches ==
    \A r \in RunIds :
        (run[r].released /\ ~run[r].cancelled /\ run[r].pc # "raised") =>
            \A c \in 1..Len(run[r].message_mappings) :
                LET e == run[r].message_mappings[c]
                    n == Len(e.msgs)
                    B == BulkCalls(r, e.channel)
                IN  (\A i \in 1..n : ~(e.msgs[i] < cutoff)) =>
                        /\ Len(B) = (n + 99) \div 100
                        /\ \A i \in 1..Len(B) : Len(B[i]) >= 1 /\ Len(B[i]) <= 100
                        /\ \A i \in 1..(Len(B) - 1) : Len(B[i]) = 100
                        /\ Concat(B) = e.msgs

\* C10 witness: 150 matched messages of one channel went in calls of 100 and 50.
C10_Witness ==
    /\ run[1].released /\ ~run[1].cancelled /\ run[1].pc = "done"
    /\ Len(run[1].message_mappings) >= 1
    /\ Len(run[1].message_mappings[1].msgs) = 150
    /\ Len(BulkCalls(1, "c1")) = 2
    /\ Len(BulkCalls(1, "c1")[1]) = 100
    /\ Len(BulkCalls(1, "c1")[2]) = 50

\* The messages run r passed to bulk deletes of a channel, and the ones it
\* passed to a delete call of their own.
BulkDeleted(r, channel) ==
    UNION {Range(run[r].calls[i].msgs) :
             i \in {k \in CallsOfKind(r, "bulk_delete") : run[r].calls[k].channel = channel}}

IndividuallyDeleted(r, channel) ==
    UNION {Range(run[r].calls[i].msgs) :
             i \in {k \in CallsOfKind(r, "delete") : run[r].calls[k].channel = channel}}

\* _delete_found ran to its end: no cancel, no error out of a call.
DeletedToTheEnd(r) == run[r].released /\ ~run[r].cancelled /\ run[r].pc # "raised"

\* The first index of msgs whose message is older than the window, or
\* Len(msgs) + 1.
C11_FirstOlder(msgs) ==
    LET olds == {j \in 1..Len(msgs) : msgs[j] < cutoff}
    IN  IF olds = {} THEN Len(msgs) + 1 ELSE CHOOSE j \in olds : \A k \in olds : j <= k

\* C11: when _delete_found ran to its end, in each channel's matched list
\* the messages before the first one older than the window went to bulk
\* deletes (and to no delete call of their own), that message and every one
\* after it, within the window or not, went to a delete call of its own (and
\* to no bulk delete); and no run ever passes a message older than the
\* window to a bulk delete.
C11_SplitAtFirstOld ==
    \A r \in RunIds :
        /\ \A i \in CallsOfKind(r, "bulk_delete") :
              \A m \in Range(run[r].calls[i].msgs) : ~(m < cutoff)
        /\ DeletedToTheEnd(r) =>
              \A c \in 1..Len(run[r].message_mappings) :
                  LET e == run[r].message_mappings[c]
                      first == C11_FirstOlder(e.msgs)
                  IN  \A j \in 1..Len(e.msgs) :
                        IF j < first
                        THEN /\ e.msgs[j] \in BulkDeleted(r, e.channel)
                             /\ e.msgs[j] \notin IndividuallyDeleted(r, e.channel)
                        ELSE /\ e.msgs[j] \in IndividuallyDeleted(r, e.channel)
                             /\ e.msgs[j] \notin BulkDeleted(r, e.channel)

\* C11 witness: of c1's list 1, 3, 5 (oldest first) the first is older than
\* the window, and 3 and 5, within it, were deleted one by one, while c2's
\* list 2, 4, all within the window, went in a bulk delete.
C11_Witness ==
    /\ DeletedToTheEnd(1) /\ run[1].pc = "done"
    /\ Len(run[1].message_mappings) = 2
    /\ run[1].message_mappings[1].msgs = <<1, 3, 5>>
    /\ cutoff = 2
    /\ IndividuallyDeleted(1, "c1") = {1, 3, 5}
    /\ BulkDeleted(1, "c1") = {}
    /\ BulkDeleted(1, "c2") = {2, 4}

\* The positions in the run's log of the deletion calls that name message m.
DeletionCallsOf(r, m) == {i \in DeletionCalls(r) : m \in Range(run[r].calls[i].msgs)}

\* C12: within one channel the deletion calls of a run are issued in the
\* order the messages were gathered: for matched messages a before b of the
\* channel's list, the call that deletes a is not issued after the call that
\* deletes b.
C12_DeletionsInGatheredOrder ==
    \A r \in RunIds :
        \A c \in 1..Len(run[r].message_mappings) :
            LET msgs == run[r].message_mappings[c].msgs
            IN  \A j, k \in 1..Len(msgs) :
                    j < k =>
                        \A ca \in DeletionCallsOf(r, msgs[j]) :
                            \A cb \in DeletionCallsOf(r, msgs[k]) : ca <= cb

\* A step in which a delete call of run r ends in NotFound.
C13_NotFoundStep(r) == Len(run'[r].absent) = Len(run[r].absent) + 1

C13_Step(r) ==
    C13_NotFoundStep(r) =>
        LET st == run[r]
            message == run'[r].absent[Len(run'[r].absent)]
            last == run'[r].calls[Len(run'[r].calls)]
        IN  /\ run'[r].pc # "raised"
            /\ message \notin Range(run'[r].deleted) \cup Range(run'[r].ind_deleted)
            /\ st.pc \in {"individual", "del_invocation"}
            /\ (st.pc = "individual" /\ st.ii < Len(st.ind) /\ cleaning) =>
                  /\ run'[r].pc = "individual"
                  /\ Len(run'[r].calls) = Len(st.calls) + 1
                  /\ last.kind = "delete" /\ last.msgs = <<st.ind[st.ii + 1]>>
            /\ (st.pc = "del_invocation" /\ cleaning) =>
                  /\ Len(run'[r].calls) > Len(st.calls)
                  /\ run'[r].calls[Len(st.calls) + 1].kind \in {"cache", "history"}

\* C13: when message.delete() raises NotFound in
\* _delete_messages_individually the run does not end in an error, the
\* message is not among the deleted ones (then or in the list returned), and
\* with the flag still up the run issues the delete of the next message of
\* the list; when the delete of the invoking message raises NotFound the run
\* goes on to gather.
C13_NotFoundAbsorbed ==
    [][\A r \in RunIds :
         /\ C13_Step(r)
         /\ Range(run'[r].absent) \cap Range(run'[r].deleted) = {}]_vars

\* C13 witness: the invoking message was gone, and so was the first message
\* to delete individually; the run went on, deleted the next one and
\* returned a list without the missing one.
C13_Witness ==
    \E r \in RunIds :
        /\ run[r].pc = "done"
        /\ Len(run[r].absent) = 2
        /\ run[r].absent[1] = InvocationMessage(r)
        /\ run[r].absent[2] = 3
        /\ run[r].deleted = <<1>>
        /\ DeletionCallsOf(r, 3) # {} /\ DeletionCallsOf(r, 1) # {}

\* C14: when a bulk delete or a delete call fails with an error other than
\* NotFound, the error leaves _clean_messages: the failed call is the last
\* call the run issues (no retry, no deletion call for the messages that
\* remain), and its messages are not counted as deleted.
C14_ErrorEndsTheRun ==
    \A r \in RunIds :
        run[r].failed # 0 =>
            /\ run[r].pc = "raised"
            /\ Len(run[r].calls) = run[r].failed
            /\ run[r].failed \in DeletionCalls(r) =>
                  Range(run[r].calls[run[r].failed].msgs)
                    \cap (Range(run[r].deleted) \cup Range(run[r].ind_deleted)) = {}

\* C14 witness: the delete of 3 failed; 1, after it in the list, and the
\* batch collected before it were never passed to a call.
C14_Witness ==
    /\ run[1].pc = "raised" /\ run[1].failed # 0
    /\ Len(run[1].message_mappings) >= 1
    /\ run[1].message_mappings[1].msgs = <<5, 3, 1>>
    /\ run[1].calls[run[1].failed].kind = "delete"
    /\ run[1].calls[run[1].failed].msgs = <<3>>
    /\ DeletionCallsOf(1, 1) = {} /\ DeletionCallsOf(1, 5) = {}
    /\ {1, 5} \subseteq exists

\* The messages of the run's deletion calls that returned: every call issued
\* has returned once _delete_found returns, and a delete that raised
\* NotFound did not succeed.
SuccessfullyDeleted(r) ==
    UNION {Range(run[r].calls[i].msgs) : i \in DeletionCalls(r)} \ Range(run[r].absent)

IgnoredBefore(r, i) ==
    UNION {Range(run[r].calls[j].msgs) :
             j \in {k \in CallsOfKind(r, "ignore") : k < i}}

\* C16: every id a run passes to a bulk delete, to a delete call or to the
\* delete of the invoking message was passed to mod_log.ignore by an earlier
\* call of the run; and by the first deletion call on a candidate every
\* gathered candidate's id has been.
C16_IgnoredBeforeDeleted ==
    \A r \in RunIds :
        /\ \A i \in DeletionCalls(r) \cup CallsOfKind(r, "delete_invocation") :
              Range(run[r].calls[i].msgs) \subseteq IgnoredBefore(r, i)
        /\ \A i \in DeletionCalls(r) :
              Range(run[r].message_ids) \subseteq IgnoredBefore(r, i)
        /\ UNION {IgnoredBefore(r, i) : i \in 1..(Len(run[r].calls) + 1)} = run[r].ignored

\* C16 witness: a run from a channel that is not the moderators' ignored
\* and deleted its invoking message, then ignored its two candidates and
\* issued a deletion call for the first.
C16_Witness ==
    \E r \in RunIds :
        /\ CallsOfKind(r, "delete_invocation") # {}
        /\ Len(run[r].message_ids) = 2
        /\ run[r].ignored = {InvocationMessage(r)} \cup Range(run[r].message_ids)
        /\ DeletionCalls(r) # {}
        /\ run[r].pc \in DeletePcs

\* clean_cancel ran during run r before the run had issued a deletion call.
CancelledBeforeDeleting(r) ==
    /\ run[r].cancelled
    /\ \A i \in DeletionCalls(r) : run[r].calls[i].late

C18_InEveryState ==
    LET flag1 == CancelFlag(cleaning)
        runs1 == CancelRuns(run)
    IN  /\ flag1 = FALSE
        /\ CancelFlag(flag1) = flag1
        /\ CancelRuns(runs1) = runs1
        /\ ~cleaning => flag1 = cleaning
        /\ \A r \in RunIds : [runs1[r] EXCEPT !.cancelled = run[r].cancelled] = run[r]

\* A step in which a run at work is cancelled: a clean_cancel.
C18_CancelStep ==
    (\E r \in RunIds : ~run[r].cancelled /\ run'[r].cancelled) =>
        /\ ~cleaning'
        /\ \A r \in RunIds : [run'[r] EXCEPT !.cancelled = run[r].cancelled] = run[r]
        /\ exists' = exists /\ cached_messages' = cached_messages /\ owner' = owner

\* C18: in every state clean_cancel leaves the flag False; invoked again it
\* leaves what the first invocation left (the flag, and the runs it has
\* cancelled); invoked while the flag is down, no run at work or some, it
\* leaves the flag as it is; and it touches nothing else: no run's frame,
\* no message.
C18_CancelIdempotent == []C18_InEveryState /\ [][C18_CancelStep]_vars

\* C18 witness: clean_cancel was invoked while a run was deleting, and the
\* flag is down.
C18_Witness ==
    \E r \in RunIds : /\ run[r].pc \in DeletePcs
                      /\ run[r].cancelled
                      /\ ~cleaning

\* C19 as stated: is_older_than_14d is True exactly for the messages created
\* fourteen days or more before the clock reading.
C19_OlderFromFourteenDays ==
    \A r \in RunIds :
        run[r].pc = "age" =>
            \A i \in 1..Len(run[r].examined) :
                LET e == run[r].examined[i]
                IN  e.older <=> (e.now - e.created >= FourteenDays)

\* C19 as amended: is_older_than_14d is True exactly for the messages
\* created more than fourteen days before the clock reading, whatever their
\* low 22 bits: a message created exactly fourteen days before is not older.
C19_OlderBeyondFourteenDays ==
    \A r \in RunIds :
        run[r].pc = "age" =>
            \A i \in 1..Len(run[r].examined) :
                LET e == run[r].examined[i]
                IN  e.older <=> (e.now - e.created > FourteenDays)

\* C19 witness: a message created fourteen days and 1 ms before the clock
\* reading, all low bits set, was found older; one created exactly fourteen
\* days before, no low bit set, was not.
C19_Witness ==
    /\ run[1].pc = "age"
    /\ Len(run[1].examined) = 2
    /\ LET a == run[1].examined[1]
           b == run[1].examined[2]
       IN  /\ a.now - a.created = FourteenDays + 1
           /\ a.low = 2^SnowflakeShift - 1
           /\ a.older
           /\ b.now - b.created = FourteenDays
           /\ b.low = 0
           /\ ~b.older

\* The run gathers through channel.history.
OnHistoryPath(r) == ~UseCachePath(DefaultChannels(run[r].q), run[r].q.use_cache)

\* The messages run r examined in a channel.
ExaminedIn(r, channel) == {m \in Range(run[r].examined) : MsgChannel(m) = channel}

C20_InEveryState ==
    \A r \in RunIds :
        run[r].pc # "idle" =>
            /\ run[r].q.traverse > message_limit => run[r].pc = "rejected"
            /\ run[r].pc \in {"rejected", "conflict"} => run[r].examined = <<>>
            /\ Started(r) =>
                  /\ run[r].q.traverse <= message_limit
                  /\ OnHistoryPath(r) =>
                        \A c \in Range(Channels) :
                            Cardinality(ExaminedIn(r, c)) <= run[r].q.traverse
                  /\ ~OnHistoryPath(r) => Len(run[r].examined) <= run[r].q.traverse

\* What one history request adds to the messages examined.
C20_HistoryStep ==
    \A r \in RunIds :
        run[r].pc = "history" =>
            Len(run'[r].examined) - Len(run[r].examined) <= run[r].q.traverse

TimeOf(l) == IF l.kind = "message" THEN created_at(l.v) ELSE l.v

BothLimits(q) == q.first_limit.kind # "none" /\ q.second_limit.kind # "none"

\* C21: a request whose limits are messages of different channels is
\* refused; in every run with both limits, the bounds the run works with are
\* the two creation times with the earlier one as `after` and as the
\* predicate's lower bound, whatever order they came in: every message a
\* history request yields lies strictly between them, and every message
\* matched lies between them.
C21_LimitsOrdered ==
    \A r \in RunIds :
        run[r].pc # "idle" =>
            LET q == run[r].q
                lo == Min(TimeOf(q.first_limit), TimeOf(q.second_limit))
                hi == Max(TimeOf(q.first_limit), TimeOf(q.second_limit))
                lim == StandardLimits(q)
            IN  /\ (/\ q.first_limit.kind = "message" /\ q.second_limit.kind = "message"
                     /\ MsgChannel(q.first_limit.v) # MsgChannel(q.second_limit.v))
                      => run[r].pc = "rejected"
                /\ (Started(r) /\ BothLimits(q)) =>
                      /\ lim[1] = DateLimit(lo) /\ lim[2] = DateLimit(hi)
                      /\ lim[1].v <= lim[2].v
                      /\ OnHistoryPath(r) =>
                            \A m \in Range(run[r].examined) :
                                lo < created_at(m) /\ created_at(m) < hi
                      /\ \A m \in Range(run[r].message_ids) :
                            lo <= created_at(m) /\ created_at(m) <= hi

\* C21 witness: the limits came later one first (after every message,
\* then before every message); the run fetched both channels between them
\* and matched their messages.
C21_Witness ==
    \E r \in RunIds :
        /\ Started(r)
        /\ run[r].q.first_limit = DateLimit(NumMsgs + 1)
        /\ run[r].q.second_limit = DateLimit(0)
        /\ OnHistoryPath(r)
        /\ Len(run[r].message_ids) >= 2
        /\ run[r].deleted # <<>>

\* C22: a master command given use_cache False never scans the cache, the
\* scope "*" included; given no use_cache, it runs with use_cache False
\* unless the scope is "*".
C22_ExplicitFalseKeepsOffTheCache ==
    \A r \in RunIds :
        Started(r) =>
            LET a == run[r].q.args
            IN  /\ a.use_cache = "False" => CallsOfKind(r, "cache") = {}
                /\ a.use_cache = "None" =>
                      (run[r].q.use_cache <=> a.channels.kind = "all")

\* The calls command number cmd of frame r made, of one kind.
CommandCalls(r, cmd, kind) ==
    {i \in 1..Len(run[r].calls) : run[r].calls[i].cmd = cmd /\ run[r].calls[i].kind = kind}

\* C23: every ban or kick that got its infraction posted hands the
\* platform a reason of at most 512 characters, and then awaits
\* apply_infraction exactly once, with the posted infraction, the target
\* and the action that call gave.
C23_ReasonShortened ==
    \A r \in RunIds :
        run[r].pc = "infractions" =>
            \A cmd \in 1..Len(run[r].examined) :
                LET given == run[r].examined[cmd]
                    acts == CommandCalls(r, cmd, given.name)
                    applied == CommandCalls(r, cmd, "apply_infraction")
                IN  given.infraction # 0 =>
                        /\ Cardinality(acts) = 1
                        /\ Cardinality(applied) = 1
                        /\ \A i \in acts : \A j \in applied :
                              /\ run[r].calls[i].reason <= ReasonLimit
                              /\ i < j
                              /\ run[r].calls[j].infraction = given.infraction
                              /\ run[r].calls[j].user = given.user
                              /\ run[r].calls[j].action = i

\* The page the history request run r waits for will bring.
AwaitedPage(r) ==
    LET lim == StandardLimits(run[r].q)
    IN  History(run[r].scope[run[r].ci], run[r].q.traverse, lim[2], lim[1], exists)

\* The cache scan returns what it matched among the entries it looked at,
\* and looked at none when it found the flag False.
C24_CacheScan ==
    \A r \in RunIds :
        (Started(r) /\ CallsOfKind(r, "cache") # {}) =>
            /\ run[r].message_ids = Matching(run[r].examined, run[r].q)
            /\ ~ScannedCache(r).flag => run[r].examined = <<>>

\* The history scan that finds the flag False at a message returns empty
\* containers, whatever was matched before, looks at no message of the page
\* and asks for no other page.
C24_HistoryStep ==
    \A r \in RunIds :
        (/\ run[r].pc = "history" /\ ~cleaning /\ AwaitedPage(r) # <<>>
         /\ run'[r] # run[r] /\ run'[r].pc # "raised") =>
            /\ run'[r].message_mappings = <<>>
            /\ run'[r].message_ids = <<>>
            /\ run'[r].examined = run[r].examined
            /\ run'[r].calls = run[r].calls
            /\ run'[r].pc = "done"

\* C24: a gatherer that finds the flag False stops there: the cache scan
\* returns the matches it has so far, the history scan returns an empty
\* mapping and an empty id list, dropping what it matched in earlier
\* channels, and neither looks at another entry.
C24_CancelledGathering == []C24_CacheScan /\ [][C24_HistoryStep]_vars

\* C24 witness: a run matched messages in its first channel, was cancelled,
\* found the flag False at the second channel's first message and ended
\* with nothing matched.
C24_Witness ==
    \E r \in RunIds :
        /\ run[r].pc = "done" /\ run[r].cancelled
        /\ OnHistoryPath(r)
        /\ Matching(run[r].examined, run[r].q) # <<>>
        /\ run[r].message_ids = <<>>
        /\ run[r].ci = 2
        /\ AwaitedPage(r) # <<>>
        /\ DeletionCalls(r) = {}

\* The step is one of run r's own (clean_cancel moves no run on).
StepOf(r) == run'[r].pc # run[r].pc \/ run'[r].calls # run[r].calls

\* C25: the flag is changed by clean_cancel and by the run that set it
\* True last, by no other run; and a run that returns at a checkpoint
\* without having released the flag was cancelled by clean_cancel after it
\* started.
C25_FlagStep ==
    /\ cleaning' # cleaning =>
          \/ \A r \in RunIds : ~StepOf(r)
          \/ \E r \in RunIds : StepOf(r) /\ owner' = r
    /\ \A r \in RunIds :
          (run[r].pc \in WorkingPcs /\ run'[r].pc = "done" /\ ~run'[r].released)
              => run[r].cancelled

C25_FlagChangedByOwnerOrCancel == [][C25_FlagStep]_vars

\* C26: once a run has been ended by an error that propagated out of
\* _clean_messages and no other run is at work, the flag is False: the
\* next valid invocation is accepted with no clean_cancel in between.
C26_AbortedRunReleasesTheFlag ==
    \A r \in RunIds :
        (run[r].pc = "raised" /\ \A k \in RunIds : run[k].pc \notin AwaitPcs)
            => ~cleaning

\* The messages run r has deleted: those of its deletion calls that
\* returned, less the ones that were already gone.
DeletedBy(r) ==
    UNION {Range(run[r].calls[i].msgs) :
             i \in {j \in DeletionCalls(r) :
                      /\ j # run[r].failed
                      /\ (j = Len(run[r].calls) => run[r].pc \notin DeletePcs)}}
        \ Range(run[r].absent)

\* C29: a run that has ended (returned, or was aborted by an error) and
\* deleted at least one message has called upload_log with exactly the
\* messages it deleted.
C29_DeletionsAreLogged ==
    \A r \in RunIds :
        (run[r].pc \in {"done", "raised"} /\ DeletedBy(r) # {}) =>
            \E i \in CallsOfKind(r, "upload_log") :
                Range(run[r].calls[i].msgs) = DeletedBy(r)

\* C27: within one run a matched message is the subject of at most one
\* deletion call: never in two bulk calls, never in a bulk call and an
\* individual one.
C27_DeletedAtMostOnce ==
    \A r \in RunIds : \A m \in Range(run[r].message_ids) :
        Cardinality(DeletionCallsOf(r, m)) <= 1

\* Request q with its two limits the other way round.
Swapped(q) == [q EXCEPT !.first_limit = q.second_limit, !.second_limit = q.first_limit]

\* C28: the order of the two limits makes no difference.  A request with
\* both limits is refused exactly when the request with the limits swapped
\* is, and when it runs it has the channel scope, the after/before bounds
\* and the predicate the swapped request has.
C28_LimitOrderIrrelevant ==
    \A r \in RunIds :
        (run[r].pc # "idle" /\ BothLimits(run[r].q)) =>
            LET q == run[r].q
            IN  /\ run[r].pc = "rejected" <=> _validate_input(Swapped(q)) # "ok"
                /\ Started(r) =>
                      /\ DefaultChannels(q) = DefaultChannels(Swapped(q))
                      /\ StandardLimits(q) = StandardLimits(Swapped(q))
                      /\ \A m \in MsgIds : ToDelete(q, m) <=> ToDelete(Swapped(q), m)

\* Run r was cancelled and is the only run there has been.
CancelledAlone(r) ==
    run[r].cancelled /\ \A k \in RunIds \ {r} : run[k].pc = "idle"

\* The calls run r began after clean_cancel that go to the platform or
\* the log sink.
CallsAfterCancel(r) ==
    {i \in 1..Len(run[r].calls) :
        run[r].calls[i].late /\ run[r].calls[i].kind \notin {"cache", "ignore"}}

\* Every run that set the flag True exits: it returns or an error ends it.
C30_EveryRunExits ==
    \A r \in RunIds : (run[r].pc \in AwaitPcs) ~> (run[r].pc \in {"done", "raised"})

\* C30, as stated: a run cancelled with no other run started begins no call
\* after the one that was in flight when clean_cancel ran.
C30_ExitsAfterTheCallInFlight ==
    \A r \in RunIds : CancelledAlone(r) => CallsAfterCancel(r) = {}

\* What a run cancelled with no other run started still begins: history
\* requests, each straight after a call that brought no message to check
\* the flag at, and the calls of _log_clean and the reaction.
C30_AfterCancel ==
    \A r \in RunIds :
        CancelledAlone(r) =>
            \A i \in CallsAfterCancel(r) :
                \/ /\ run[r].calls[i].kind = "history"
                   /\ i > 1
                   /\ run[r].calls[i - 1].kind \in {"history", "delete_invocation"}
                \/ run[r].calls[i].kind \in
                       {"send", "upload_log", "send_log_message", "add_reaction"}

\* C30 (amended): under weak fairness of the runs' steps every run that
\* set the flag True exits, whatever clean_cancel and other invocations do;
\* and a run cancelled with no other run started begins no deletion call
\* after the call in flight: only history requests that follow a call
\* without a message, and the calls that log what it deleted.
C30_ExitsAndStopsDeleting == C30_EveryRunExits /\ []C30_AfterCancel

\* C30 witness: a run was cancelled while a bulk delete was in flight, no
\* other run was started, and it went on to upload the log of what it had
\* deleted and returned.
C30_Witness ==
    \E r \in RunIds :
        /\ CancelledAlone(r)
        /\ run[r].pc = "done"
        /\ \E i \in CallsAfterCancel(r) : run[r].calls[i].kind = "upload_log"
        /\ \E i \in DeletionCalls(r) : ~run[r].calls[i].late

====
